---- MODULE Spec2Model ----
(***************************************************************************)
(* Model of the content-safety service: the guardrail gate                 *)
(* (src/utils/guardrails.py), the analysis pipeline                        *)
(* (src/pipelines/analysis_pipeline.py) and the two entry points that wire *)
(* them together (src/api/main.py, src/api/ui.py).                         *)
(*                                                                         *)
(* Strings that the code inspects (the text, the demo token) are sequences *)
(* of characters; strings it only passes around are TLA+ strings.          *)
(* Confidence is counted in hundredths (0.85 is 85).  Time is counted in   *)
(* ticks, TicksPerSecond ticks to a second.                                *)
(***************************************************************************)
EXTENDS Integers, Sequences, FiniteSets, TLC

VARIABLES
    demo_token,     \* guardrails.DEMO_TOKEN, already stripped ("" = no gate)
    groq_api_key,   \* whether GROQ_API_KEY is present in the environment
    rate_store,     \* guardrails._rate_store: client key -> deque of timestamps
    clock,          \* what time.time() returns, in ticks
    pipelines,      \* entry points whose lru_cache'd get_pipeline() holds a pipeline
    task,           \* the in-flight request handlers (coroutines), one per slot
    gate,           \* the latest enforce_guardrails call: arguments and outcome
    admitted,       \* history: client key -> timestamps of every admitted request
    limited,        \* history: client keys turned away (429) and not admitted since
    response        \* the response most recently sent, with the facts of its request

vars == <<demo_token, groq_api_key, rate_store, clock, pipelines, task, gate, admitted,
          limited, response>>

----------------------------------------------------------------------------
(* Configuration.  The three guardrail settings are read from the          *)
(* environment; the model runs a small configuration of them.              *)

MAX_TEXT_CHARS == 1
RATE_LIMIT_MAX_REQUESTS == 2
RATE_LIMIT_WINDOW_SECONDS == 1

\* the short-circuit confidence 0.85, in hundredths
ShortCircuitConfidence == 85
\* RetrieverAgent's top_k
top_k == 4

(* Bounds of the model. *)
TicksPerSecond == 1
MaxClock == 2
\* the most policies the index holds for one query
MaxRanked == 5

\* the handlers that can be in flight at once
Slots == {"t1", "t2"}

WindowTicks == RATE_LIMIT_WINDOW_SECONDS * TicksPerSecond

----------------------------------------------------------------------------
(* Strings *)

Chars == {" ", "a"}

RECURSIVE SeqsUpTo(_, _)
SeqsUpTo(S, n) ==
    IF n = 0 THEN {<<>>}
    ELSE LET shorter == SeqsUpTo(S, n - 1)
         IN shorter \cup {Append(s, c) : s \in {t \in shorter : Len(t) = n - 1}, c \in S}

RECURSIVE LStrip(_)
LStrip(s) == IF s # <<>> /\ Head(s) = " " THEN LStrip(Tail(s)) ELSE s

RECURSIVE RStrip(_)
RStrip(s) ==
    IF s # <<>> /\ s[Len(s)] = " " THEN RStrip(SubSeq(s, 1, Len(s) - 1)) ELSE s

\* str.strip()
Strip(s) == RStrip(LStrip(s))

----------------------------------------------------------------------------
(* The guardrail gate: guardrails.py *)

\* _get_client_ip: the first entry of X-Forwarded-For when the header is there,
\* else the peer's address, else "unknown".  xff is the header split at commas
\* (<<>> when the header is absent or empty); host is "" when request.client
\* is None.
_get_client_ip(xff, host) ==
    IF xff # <<>> THEN Head(xff)
    ELSE IF host # "" THEN host ELSE "unknown"

\* faulty variant: a request that sends no token header is let through
TokenRejectedIfSent(token) ==
    demo_token # <<>> /\ Strip(token) # <<>> /\ Strip(token) # demo_token

\* step 1: the demo token gate; token is the X-Demo-Token header, <<>> if absent
TokenRejected(token) == demo_token # <<>> /\ Strip(token) # demo_token

\* faulty variant: only the empty text counts as missing: no strip()
TextMissingUnstripped(text) == text = <<>>

\* step 2: "Text is required."
TextMissing(text) == Strip(text) = <<>>

\* faulty variant: the length bound taken exclusive
TextTooLongAtMax(text) == Len(text) >= MAX_TEXT_CHARS

\* step 2: "Text too long."
TextTooLong(text) == Len(text) > MAX_TEXT_CHARS

\* faulty variant: a new key does not get a deque of its own but one that is
\* already in the store
QueueShared(store, ip) ==
    IF ip \in DOMAIN store THEN store[ip]
    ELSE IF DOMAIN store # {} THEN store[CHOOSE k \in DOMAIN store : TRUE]
    ELSE <<>>

\* _rate_store.get(ip), a fresh deque when the key is new
Queue(store, ip) == IF ip \in DOMAIN store THEN store[ip] ELSE <<>>

RECURSIVE DropExpiredInclusive(_, _)
\* faulty variant: the cutoff taken inclusive: <= for <
DropExpiredInclusive(q, cutoff) ==
    IF q # <<>> /\ Head(q) <= cutoff THEN DropExpiredInclusive(Tail(q), cutoff) ELSE q

\* faulty variant: "if" for "while": at most one expired timestamp is dropped
DropExpiredOnce(q, cutoff) ==
    IF q # <<>> /\ Head(q) < cutoff THEN Tail(q) ELSE q

\* while q and q[0] < cutoff: q.popleft()
RECURSIVE DropExpired(_, _)
DropExpired(q, cutoff) ==
    IF q # <<>> /\ Head(q) < cutoff THEN DropExpired(Tail(q), cutoff) ELSE q

\* faulty variant: the limit compared with > for >=
OverLimitOffByOne(q) == Len(q) > RATE_LIMIT_MAX_REQUESTS

\* len(q) >= RATE_LIMIT_MAX_REQUESTS
OverLimit(q) == Len(q) >= RATE_LIMIT_MAX_REQUESTS

\* int(q[0] + RATE_LIMIT_WINDOW_SECONDS - now): whole seconds, truncated
WaitSeconds(q, now) == (Head(q) + WindowTicks - now) \div TicksPerSecond

\* faulty variant: the check works on a copy of the client's deque that is
\* stored only for a new key: the update of a known key is lost
PutLostUpdate(store, ip, q) ==
    IF ip \in DOMAIN store THEN store
    ELSE [k \in DOMAIN store \cup {ip} |-> IF k = ip THEN q ELSE store[k]]

\* _rate_store[ip] = q
Put(store, ip, q) ==
    [k \in DOMAIN store \cup {ip} |-> IF k = ip THEN q ELSE store[k]]

\* faulty variant: the timestamp is appended before the limit is checked, so
\* a request turned away with 429 is counted too
enforce_guardrailsCountsRejected(token, text, ip, now, store) ==
    IF TokenRejected(token) THEN [status |-> 401, wait |-> 0, store |-> store]
    ELSE IF TextMissing(text) THEN [status |-> 400, wait |-> 0, store |-> store]
    ELSE IF TextTooLong(text) THEN [status |-> 413, wait |-> 0, store |-> store]
    ELSE LET q == DropExpired(Queue(store, ip), now - WindowTicks)
         IN  IF OverLimit(q)
             THEN [status |-> 429, wait |-> WaitSeconds(q, now),
                   store |-> Put(store, ip, Append(q, now))]
             ELSE [status |-> 0, wait |-> 0,
                   store |-> Put(store, ip, Append(q, now))]

\* faulty variant: the rate limiter's lookup and eviction run before the
\* checks of the token and the text
enforce_guardrailsEvictsFirst(token, text, ip, now, store) ==
    LET q == DropExpired(Queue(store, ip), now - WindowTicks)
    IN  IF TokenRejected(token)
        THEN [status |-> 401, wait |-> 0, store |-> Put(store, ip, q)]
        ELSE IF TextMissing(text)
        THEN [status |-> 400, wait |-> 0, store |-> Put(store, ip, q)]
        ELSE IF TextTooLong(text)
        THEN [status |-> 413, wait |-> 0, store |-> Put(store, ip, q)]
        ELSE IF OverLimit(q)
        THEN [status |-> 429, wait |-> WaitSeconds(q, now),
              store |-> Put(store, ip, q)]
        ELSE [status |-> 0, wait |-> 0,
              store |-> Put(store, ip, Append(q, now))]

\* enforce_guardrails: the status raised (0 when the call returns), the wait
\* hint of a 429, and the rate store the call leaves behind.
enforce_guardrails(token, text, ip, now, store) ==
    IF TokenRejected(token) THEN [status |-> 401, wait |-> 0, store |-> store]
    ELSE IF TextMissing(text) THEN [status |-> 400, wait |-> 0, store |-> store]
    ELSE IF TextTooLong(text) THEN [status |-> 413, wait |-> 0, store |-> store]
    ELSE LET q == DropExpired(Queue(store, ip), now - WindowTicks)
         IN  IF OverLimit(q)
             THEN [status |-> 429, wait |-> WaitSeconds(q, now),
                   store |-> Put(store, ip, q)]
             ELSE [status |-> 0, wait |-> 0,
                   store |-> Put(store, ip, Append(q, now))]

----------------------------------------------------------------------------
(* The pipeline: analysis_pipeline.py, and the collaborators' own checks *)

\* the templated first reason of the short-circuit decision
TemplateReason(category) ==
    IF category = "benign"
    THEN "Classifier categorized as 'benign' and determined no further review is needed."
    ELSE "Classifier categorized as 'harassment' and determined no further review is needed."

\* faulty variant: the short-circuit confidence of the earlier revision, 0.8
ShortCircuitDecisionOld(cls) ==
    [label |-> "allowed",
     confidence |-> 80,
     category |-> cls.category,
     reasons |-> <<TemplateReason(cls.category), cls.explanation>>]

\* the decision of the short-circuit path
ShortCircuitDecision(cls) ==
    [label |-> "allowed",
     confidence |-> ShortCircuitConfidence,
     category |-> cls.category,
     reasons |-> <<TemplateReason(cls.category), cls.explanation>>]

\* faulty variant: the decision is the compliance answer alone, and the
\* response model fills in its default category, ""
ReviewDecisionUncategorised(cls, compliance) ==
    [label |-> compliance.label,
     confidence |-> compliance.confidence,
     category |-> "",
     reasons |-> compliance.reasons]

\* faulty variant: the classifier's explanation put in front of the reasons
ReviewDecisionExplained(cls, compliance) ==
    [label |-> compliance.label,
     confidence |-> compliance.confidence,
     category |-> cls.category,
     reasons |-> <<cls.explanation>> \o compliance.reasons]

\* the decision of the review path
ReviewDecision(cls, compliance) ==
    [label |-> compliance.label,
     confidence |-> compliance.confidence,
     category |-> cls.category,
     reasons |-> compliance.reasons]

\* faulty variant: ComplianceResult without the le=1.0 bound on confidence
ComplianceResultNoUpperBound(raw) ==
    /\ raw.label \in {"allowed", "flag", "block"}
    /\ raw.confidence >= 0

\* ComplianceResult: what the structured-output parser accepts
ComplianceResultValid(raw) ==
    /\ raw.label \in {"allowed", "flag", "block"}
    /\ raw.confidence >= 0
    /\ raw.confidence <= 100

\* faulty variant: the store asks the index for every match: k is not passed on
similarity_searchUnbounded(ranked, k) == ranked

\* VectorStore.similarity_search: the index's similarity_search_with_score
\* with k = k: the k best of ranked, the (document, score) pairs that match
\* the query and the category filter, best first
similarity_search(ranked, k) ==
    SubSeq(ranked, 1, IF Len(ranked) < k THEN Len(ranked) ELSE k)

\* RetrieverAgent.run: one entry per hit of the search for top_k, in the
\* search's order, made of the document's metadata (policy_id; title,
\* category and severity are copied the same way), its text and the score
retriever_run(ranked) ==
    LET hits == similarity_search(ranked, top_k)
    IN  [i \in DOMAIN hits |->
            [policy_id |-> hits[i].doc.policy_id,
             snippet |-> hits[i].doc.page_content,
             score |-> hits[i].score]]

\* faulty variant: the compliance call wrapped in a retry: awaited twice
ReviewCallsRetried == <<"retriever", "compliance", "compliance">>

\* the collaborators in the order analyze awaits them once review is needed
ReviewCalls == <<"retriever", "compliance">>

----------------------------------------------------------------------------
(* State *)

NoCls == [category |-> "", needs_review |-> FALSE, explanation |-> ""]

\* (ranked: what the index held for the request's query; retrieved: what
\* the retriever handed back, the argument of the compliance call)
IdleTask ==
    [pc |-> "idle", endpoint |-> "", content_id |-> "", text |-> <<>>,
     cls |-> NoCls, ranked |-> <<>>, retrieved |-> <<>>, calls |-> <<>>]

\* gate: the latest call of enforce_guardrails, its arguments and its outcome
\* (retry: the client had been turned away with 429 and not admitted since;
\* at: the time of the call)
NoGate == [seq |-> 0, ip |-> "", token |-> <<>>, text |-> <<>>, status |-> 0,
           wait |-> 0, retry |-> FALSE, at |-> 0]

\* body is <<>> or <<the AnalysisResult>>; compliance is <<>> or <<what
\* ComplianceAgent.run returned>>
NoResponse ==
    [endpoint |-> "", status |-> 0, content_id |-> "", body |-> <<>>,
     cls |-> NoCls, retrieved |-> <<>>, compliance |-> <<>>, calls |-> <<>>]

Init ==
    /\ demo_token \in {<<>>, <<"s">>}
    /\ groq_api_key \in BOOLEAN
    /\ rate_store = [k \in {} |-> <<>>]
    /\ clock = 0
    /\ pipelines = {}
    /\ task = [r \in Slots |-> IdleTask]
    /\ gate = NoGate
    /\ admitted = [k \in {} |-> <<>>]
    /\ limited = {}
    /\ response = NoResponse

----------------------------------------------------------------------------
(* Operations *)

\* the log of the timestamps admitted for a client key (history)
Log(log, ip, now) ==
    [k \in DOMAIN log \cup {ip} |->
        IF k = ip THEN Append(IF ip \in DOMAIN log THEN log[ip] ELSE <<>>, now)
        ELSE log[k]]

\* faulty variant: the constructors take the credential as it is, missing or
\* not: nothing is raised before the first remote call
ConfigurationAccepted(endpoint) == FALSE

\* get_pipeline() builds the entry point's AnalysisPipeline on its first call
\* (lru_cache keeps what was built, never an exception);
\* ClassifierAgent.__init__ raises ValueError when GROQ_API_KEY is not set
ConfigurationFails(endpoint) == endpoint \notin pipelines /\ ~groq_api_key

\* faulty variant: the rate limit's rejection does not stop the handler
AdmittedOverLimit(g) == g.status \in {0, 429}

\* the handler goes on to the pipeline only when enforce_guardrails returned
Admitted(g) == g.status = 0

\* a response, with the request's endpoint and identifier, what the
\* collaborators handed back, and the collaborators called, in order
Reply(endpoint, content_id, status, body, cls, retrieved, compliance, calls) ==
    [endpoint |-> endpoint, status |-> status, content_id |-> content_id,
     body |-> body, cls |-> cls, retrieved |-> retrieved,
     compliance |-> compliance, calls |-> calls]

\* A request handler from its start to its first suspension: the guardrails,
\* get_pipeline() and the call of pipeline.analyze up to the classifier's await.
\* Both entry points run this sequence.
Handle(r, endpoint, content_id, xff, host, token, text) ==
    /\ task[r].pc = "idle"
    /\ LET ip == _get_client_ip(xff, host)
           g  == enforce_guardrails(token, text, ip, clock, rate_store)
       IN  /\ rate_store' = g.store
           /\ gate' = [seq |-> 1 - gate.seq, ip |-> ip, token |-> token,
                       text |-> text, status |-> g.status, wait |-> g.wait,
                       retry |-> ip \in limited, at |-> clock]
           /\ admitted' = IF g.status = 0 THEN Log(admitted, ip, clock)
                          ELSE admitted
           /\ limited' = IF g.status = 429 THEN limited \cup {ip}
                         ELSE IF g.status = 0 THEN limited \ {ip}
                         ELSE limited
           /\ IF ~Admitted(g)
              THEN \* HTTPException: the framework answers with its status
                   /\ response' = Reply(endpoint, content_id, g.status, <<>>,
                                        NoCls, <<>>, <<>>, <<>>)
                   /\ UNCHANGED <<task, pipelines>>
              ELSE IF ConfigurationFails(endpoint)
              THEN \* get_pipeline() raises: the framework answers 500
                   /\ response' = Reply(endpoint, content_id, 500, <<>>,
                                        NoCls, <<>>, <<>>, <<>>)
                   /\ UNCHANGED <<task, pipelines>>
              ELSE /\ pipelines' = pipelines \cup {endpoint}
                   /\ task' = [task EXCEPT ![r] =
                                 [pc |-> "classifier", endpoint |-> endpoint,
                                  content_id |-> content_id, text |-> text,
                                  cls |-> NoCls, ranked |-> <<>>,
                                  retrieved |-> <<>>,
                                  calls |-> <<"classifier">>]]
                   /\ UNCHANGED response
    /\ UNCHANGED <<demo_token, groq_api_key, clock>>

\* POST /analyze
analyze_content(r, id, xff, host, token, text) ==
    Handle(r, "api", id, xff, host, token, text)

\* POST / (the web form)
ui_analyze(r, xff, host, token, text) ==
    Handle(r, "ui", "web-ui", xff, host, token, text)

\* faulty variant: the identifier is kept on the pipeline object, which all
\* requests share: a request that is in flight at the same time overwrites it
AnalysisResultSharedId(r, decision) ==
    LET others == {s \in Slots : s # r /\ task[s].pc # "idle"}
    IN  [content_id |-> IF others # {}
                        THEN task[CHOOSE s \in others : TRUE].content_id
                        ELSE task[r].content_id,
         decision |-> decision]

\* return {"content_id": content_id, "decision": decision}: content_id is the
\* argument of this call of analyze
AnalysisResult(r, decision) ==
    [content_id |-> task[r].content_id, decision |-> decision]

\* the classifier answers needs_review = false: the short-circuit return
ClassifierReturnsNoReview(r, out) ==
    /\ task[r].pc = "classifier"
    /\ ~out.needs_review
    /\ response' = Reply(task[r].endpoint, task[r].content_id, 200,
                         <<AnalysisResult(r, ShortCircuitDecision(out))>>,
                         out, <<>>, <<>>, task[r].calls)
    /\ task' = [task EXCEPT ![r] = IdleTask]
    /\ UNCHANGED <<demo_token, groq_api_key, rate_store, clock, pipelines, gate,
                   admitted, limited>>

\* the classifier answers needs_review = true: the retriever runs (it never
\* suspends) on what the index holds and hands its list over; compliance.run
\* is awaited with that list
ClassifierReturnsReview(r, out, ranked) ==
    /\ task[r].pc = "classifier"
    /\ out.needs_review
    /\ task' = [task EXCEPT ![r].pc = "compliance", ![r].cls = out,
                            ![r].ranked = ranked,
                            ![r].retrieved = retriever_run(ranked),
                            ![r].calls = task[r].calls \o ReviewCalls]
    /\ UNCHANGED <<demo_token, groq_api_key, rate_store, clock, pipelines, gate,
                   admitted, limited, response>>

\* faulty variant: a failed request gives its quota back: the newest
\* timestamp of the client that called last is taken out again
ClassifierFailsRefund(r) ==
    /\ task[r].pc = "classifier"
    /\ response' = Reply(task[r].endpoint, task[r].content_id, 500, <<>>,
                         NoCls, <<>>, <<>>, task[r].calls)
    /\ task' = [task EXCEPT ![r] = IdleTask]
    /\ rate_store' =
            [k \in DOMAIN rate_store |->
                IF k = gate.ip /\ rate_store[k] # <<>>
                THEN SubSeq(rate_store[k], 1, Len(rate_store[k]) - 1)
                ELSE rate_store[k]]
    /\ UNCHANGED <<demo_token, groq_api_key, clock, pipelines, gate,
                   admitted, limited>>

\* the classifier call raises: the request ends with a server error
ClassifierFails(r) ==
    /\ task[r].pc = "classifier"
    /\ response' = Reply(task[r].endpoint, task[r].content_id, 500, <<>>,
                         NoCls, <<>>, <<>>, task[r].calls)
    /\ task' = [task EXCEPT ![r] = IdleTask]
    /\ UNCHANGED <<demo_token, groq_api_key, rate_store, clock, pipelines, gate,
                   admitted, limited>>

\* review is needed and the similarity search raises
RetrieverFails(r, out) ==
    /\ task[r].pc = "classifier"
    /\ out.needs_review
    /\ response' = Reply(task[r].endpoint, task[r].content_id, 500, <<>>,
                         out, <<>>, <<>>, Append(task[r].calls, Head(ReviewCalls)))
    /\ task' = [task EXCEPT ![r] = IdleTask]
    /\ UNCHANGED <<demo_token, groq_api_key, rate_store, clock, pipelines, gate,
                   admitted, limited>>

\* the compliance model's answer passes ComplianceResult: analyze returns
ComplianceReturns(r, raw) ==
    /\ task[r].pc = "compliance"
    /\ ComplianceResultValid(raw)
    /\ response' = Reply(task[r].endpoint, task[r].content_id, 200,
                         <<AnalysisResult(r, ReviewDecision(task[r].cls, raw))>>,
                         task[r].cls, task[r].retrieved, <<raw>>, task[r].calls)
    /\ task' = [task EXCEPT ![r] = IdleTask]
    /\ UNCHANGED <<demo_token, groq_api_key, rate_store, clock, pipelines, gate,
                   admitted, limited>>

\* faulty variant: a failed compliance call is papered over with a fallback
\* decision built from the classification alone
ComplianceFailsWithFallback(r) ==
    /\ task[r].pc = "compliance"
    /\ response' = Reply(task[r].endpoint, task[r].content_id, 200,
                         <<[content_id |-> task[r].content_id,
                            decision |-> [label |-> "flag",
                                          category |-> task[r].cls.category]]>>,
                         task[r].cls, task[r].retrieved, <<>>, task[r].calls)
    /\ task' = [task EXCEPT ![r] = IdleTask]
    /\ UNCHANGED <<demo_token, groq_api_key, rate_store, clock, pipelines, gate,
                   admitted, limited>>

\* the compliance call raises (the remote call, or the parser on an answer
\* that is no ComplianceResult)
ComplianceFails(r) ==
    /\ task[r].pc = "compliance"
    /\ response' = Reply(task[r].endpoint, task[r].content_id, 500, <<>>,
                         task[r].cls, task[r].retrieved, <<>>, task[r].calls)
    /\ task' = [task EXCEPT ![r] = IdleTask]
    /\ UNCHANGED <<demo_token, groq_api_key, rate_store, clock, pipelines, gate,
                   admitted, limited>>

\* the request's task is cancelled while it awaits a collaborator (the client
\* went away, the server shuts down): CancelledError ends the handler and no
\* response is sent
Cancelled(r) ==
    /\ task[r].pc # "idle"
    /\ task' = [task EXCEPT ![r] = IdleTask]
    /\ UNCHANGED <<demo_token, groq_api_key, rate_store, clock, pipelines, gate,
                   admitted, limited, response>>

\* time passes
Tick ==
    /\ clock < MaxClock
    /\ clock' = clock + 1
    /\ UNCHANGED <<demo_token, groq_api_key, rate_store, pipelines, task, gate,
                   admitted, limited, response>>

----------------------------------------------------------------------------
(* Environments: what the callers send and what the remote models answer *)

ClassifierOutputs ==
    [category : {"benign", "harassment"}, needs_review : BOOLEAN,
     explanation : {"Clearly harmless."}]

\* what the compliance model may answer, before ComplianceResult checks it
RawComplianceOutputs ==
    [label : {"allowed", "flag", "block", "maybe"},
     confidence : {-1, 0, 100, 101},
     reasons : {<<>>, <<"Matches harassment policy p1.", "r2">>}]

\* a (document, score) pair of the index
Hit(policy_id, score) ==
    [doc |-> [policy_id |-> policy_id, page_content |-> "snippet"],
     score |-> score]

\* what the index holds for a query, best first: nothing, or one policy
Hits == {<<>>, <<Hit("p1", 1)>>}

PolicyIds == <<"p1", "p2", "p3", "p4", "p5", "p6">>

\* what the index holds for a query, best first: up to MaxRanked policies, in
\* the order of PolicyIds or against it
Rankings ==
    {[i \in 1..n |-> Hit(PolicyIds[i], i)] : n \in 0..MaxRanked} \cup
    {[i \in 1..n |-> Hit(PolicyIds[MaxRanked + 1 - i], i)] : n \in 0..MaxRanked}

\* X-Demo-Token: absent, the configured token (padded), a wrong one
Tokens == {<<>>, <<"s", " ">>, <<"w">>}

Texts == SeqsUpTo(Chars, MAX_TEXT_CHARS + 1)

\* (X-Forwarded-For, peer address): the three ways _get_client_ip finds a key
Peers == {<< <<>>, "ipA" >>, << <<>>, "" >>, << <<"ipA", "ipB">>, "ipB" >>}

\* The pipeline: one client sending valid requests, and collaborators that
\* answer anything or fail.
Next ==
    \/ analyze_content("t1", "x1", <<>>, "ipA", <<"s">>, <<"a">>)
    \/ ui_analyze("t1", <<>>, "ipA", <<"s">>, <<"a">>)
    \/ \E out \in ClassifierOutputs : ClassifierReturnsNoReview("t1", out)
    \/ \E out \in ClassifierOutputs, ranked \in Hits :
            ClassifierReturnsReview("t1", out, ranked)
    \/ ClassifierFails("t1")
    \/ \E out \in ClassifierOutputs : RetrieverFails("t1", out)
    \/ \E raw \in RawComplianceOutputs : ComplianceReturns("t1", raw)
    \/ ComplianceFails("t1")
    \/ Tick

Spec == Init /\ [][Next]_vars

\* The guardrail gate's checks of the request: one client sending any token
\* and any text to either entry point, and a classifier that finds nothing to
\* review.
NextGuard ==
    \/ \E token \in Tokens, text \in Texts :
            analyze_content("t1", "x1", <<>>, "ipA", token, text)
    \/ \E token \in Tokens, text \in Texts :
            ui_analyze("t1", <<>>, "ipA", token, text)
    \/ \E out \in {o \in ClassifierOutputs : o.category = "benign"} :
            ClassifierReturnsNoReview("t1", out)
    \/ ClassifierFails("t1")
    \/ Tick

SpecGuard == Init /\ [][NextGuard]_vars

\* The rate limiter: valid requests from several client keys.
NextRate ==
    \/ \E peer \in Peers :
            analyze_content("t1", "x1", peer[1], peer[2], <<"s">>, <<"a">>)
    \/ \E out \in {o \in ClassifierOutputs : o.category = "benign"} :
            ClassifierReturnsNoReview("t1", out)
    \/ ClassifierFails("t1")
    \/ Tick

SpecRate == Init /\ [][NextRate]_vars

\* a classifier that tells the two clients' texts apart
ClassifierOutputsFor(text) ==
    {o \in ClassifierOutputs :
        o.category = IF text = <<"a">> THEN "benign" ELSE "harassment"}

ValidComplianceOutputs ==
    {raw \in RawComplianceOutputs :
        raw.label = "flag" /\ raw.confidence = 100}

\* Requests in flight together: two handlers, of one client or of two, each
\* suspended at its collaborator calls while the other runs; any of them may
\* fail or be cancelled.
NextConc ==
    \/ analyze_content("t1", "x1", <<>>, "ipA", <<"s">>, <<"a">>)
    \/ \E host \in {"ipA", "ipB"} :
            analyze_content("t2", "x2", <<>>, host, <<"s">>, <<"b">>)
    \/ \E r \in Slots : \E out \in ClassifierOutputsFor(task[r].text) :
            ClassifierReturnsNoReview(r, out)
    \/ \E r \in Slots : \E out \in ClassifierOutputsFor(task[r].text) :
            ClassifierReturnsReview(r, out, <<Hit("p1", 1)>>)
    \/ \E r \in Slots : ClassifierFails(r)
    \/ \E r \in Slots : \E out \in ClassifierOutputsFor(task[r].text) :
            RetrieverFails(r, out)
    \/ \E r \in Slots : \E raw \in ValidComplianceOutputs :
            ComplianceReturns(r, raw)
    \/ \E r \in Slots : ComplianceFails(r)
    \/ \E r \in Slots : Cancelled(r)
    \/ Tick

\* a process that has its credential and asks for no demo token
InitConc == Init /\ demo_token = <<>> /\ groq_api_key

SpecConc == InitConc /\ [][NextConc]_vars

\* Retrieval: one client whose texts need review, an index that holds
\* anything from no policy to more than top_k, and a compliance collaborator
\* that answers or fails.
NextRetr ==
    \/ analyze_content("t1", "x1", <<>>, "ipA", <<"s">>, <<"a">>)
    \/ \E out \in {o \in ClassifierOutputs :
                        o.category = "harassment" /\ o.needs_review},
          ranked \in Rankings :
            ClassifierReturnsReview("t1", out, ranked)
    \/ ClassifierFails("t1")
    \/ \E out \in {o \in ClassifierOutputs : o.needs_review} :
            RetrieverFails("t1", out)
    \/ \E raw \in ValidComplianceOutputs : ComplianceReturns("t1", raw)
    \/ ComplianceFails("t1")
    \/ Tick

SpecRetr == Init /\ [][NextRetr]_vars

----------------------------------------------------------------------------
(* Properties *)

Decision == response.body[1].decision

\* a call of enforce_guardrails was made in this step
GateCalled == gate'.seq # gate.seq

\* the call was not turned away by the token, blank-text or length checks
OtherwiseValid(g) == g.status \notin {401, 400, 413}

\* how many of q's timestamps lie in the window of W seconds ending at t
InWindow(q, t) ==
    Cardinality({i \in DOMAIN q : q[i] >= t - WindowTicks /\ q[i] <= t})

\* C1: whenever the classifier answered needs_review = false, analyze
\* returned, the decision is "allowed" with confidence 0.85, and the classifier
\* is the only collaborator that was called for the request.
C1_ShortCircuit ==
    (response.cls # NoCls /\ ~response.cls.needs_review) =>
        /\ response.status = 200
        /\ response.body # <<>>
        /\ Decision.label = "allowed"
        /\ Decision.confidence = 85
        /\ response.calls = <<"classifier">>

C1_Witness ==
    /\ response.status = 200
    /\ response.cls.category = "harassment"
    /\ ~response.cls.needs_review

\* C2: whenever the classifier answered needs_review = true and the request
\* completed, the collaborators called were the classifier, the retriever and
\* the compliance collaborator, once each and in that order, and the returned
\* label, confidence and reasons are the ones the compliance collaborator
\* returned.
C2_ReviewPath ==
    (response.status = 200 /\ response.cls.needs_review) =>
        /\ response.calls = <<"classifier", "retriever", "compliance">>
        /\ Len(response.compliance) = 1
        /\ Decision.label = response.compliance[1].label
        /\ Decision.confidence = response.compliance[1].confidence
        /\ Decision.reasons = response.compliance[1].reasons

C2_Witness ==
    /\ response.status = 200
    /\ response.cls.needs_review
    /\ response.compliance # <<>>
    /\ response.compliance[1].label = "flag"
    /\ response.compliance[1].reasons # <<>>

\* C3: every returned result has a confidence in [0.0, 1.0] and a label among
\* allowed, flag and block, whatever the models answered.
C3_DecisionRange ==
    response.body # <<>> =>
        /\ Decision.confidence >= 0
        /\ Decision.confidence <= 100
        /\ Decision.label \in {"allowed", "flag", "block"}

C3_Witness ==
    /\ response.body # <<>>
    /\ response.compliance # <<>>
    /\ Decision.confidence = 100
    /\ Decision.label = "block"

\* C4: a call that is otherwise valid, from a client with max admitted
\* requests stamped within the last W seconds, is rejected with 429.
C4_RateLimited ==
    [][(/\ GateCalled
        /\ OtherwiseValid(gate')
        /\ InWindow(Queue(admitted, gate'.ip), clock) >= RATE_LIMIT_MAX_REQUESTS)
       => gate'.status = 429]_vars

C4_Witness ==
    /\ gate.status = 429
    /\ response.status = 429
    /\ InWindow(Queue(admitted, gate.ip), clock) = RATE_LIMIT_MAX_REQUESTS

\* C5: once a client was turned away with 429, an otherwise valid call of it
\* made after the clock has passed its oldest recorded timestamp + W is
\* admitted: what has expired is evicted and the new timestamp is appended.
C5_Readmitted ==
    [][(/\ GateCalled
        /\ OtherwiseValid(gate')
        /\ gate'.ip \in limited
        /\ clock > Head(rate_store[gate'.ip]) + WindowTicks)
       => /\ gate'.status = 0
          /\ Head(rate_store'[gate'.ip]) # Head(rate_store[gate'.ip])
          /\ rate_store'[gate'.ip][Len(rate_store'[gate'.ip])] = clock
          /\ \A i \in DOMAIN rate_store'[gate'.ip] :
                rate_store'[gate'.ip][i] >= clock - WindowTicks]_vars

C5_Witness ==
    /\ gate.retry
    /\ gate.status = 0
    /\ rate_store[gate.ip] = <<clock>>

\* C6: for every client and every instant t, at most max admitted requests
\* are stamped within [t - W, t], and the client's stored sequence never holds
\* more than max entries.
C6_SlidingWindow ==
    /\ \A k \in DOMAIN admitted : \A t \in 0..MaxClock :
            InWindow(admitted[k], t) <= RATE_LIMIT_MAX_REQUESTS
    /\ \A k \in DOMAIN rate_store : Len(rate_store[k]) <= RATE_LIMIT_MAX_REQUESTS

C6_Witness ==
    \E k \in DOMAIN admitted :
        /\ Len(admitted[k]) > RATE_LIMIT_MAX_REQUESTS
        /\ Len(rate_store[k]) = RATE_LIMIT_MAX_REQUESTS
        /\ InWindow(admitted[k], clock) = RATE_LIMIT_MAX_REQUESTS

\* enforce_guardrails has been called
Called == gate # NoGate

NonBlank(text) == \E i \in DOMAIN text : text[i] # " "

\* C7 as stated: a non-blank text of exactly the maximum length passes the
\* length check, and a text of length maximum + 1 is rejected with 413.
C7_Original ==
    Called =>
        /\ (NonBlank(gate.text) /\ Len(gate.text) = MAX_TEXT_CHARS)
                => gate.status \notin {400, 413}
        /\ Len(gate.text) = MAX_TEXT_CHARS + 1 => gate.status = 413

\* C7, amended: for a request that the token gate lets through, a non-blank
\* text of exactly the maximum length passes the length check, and a non-blank
\* text of length maximum + 1 is rejected with 413.
C7_LengthBoundary ==
    (Called /\ gate.status # 401 /\ NonBlank(gate.text)) =>
        /\ Len(gate.text) = MAX_TEXT_CHARS => gate.status \notin {400, 413}
        /\ Len(gate.text) = MAX_TEXT_CHARS + 1 => gate.status = 413

C7_Witness ==
    /\ Called
    /\ demo_token # <<>>
    /\ Len(gate.text) = MAX_TEXT_CHARS
    /\ gate.status = 0

\* C8 as stated: every empty or whitespace-only text is rejected with 400.
C8_Original ==
    (Called /\ ~NonBlank(gate.text)) => gate.status = 400

\* C8, amended: for a request that the token gate lets through, every empty
\* or whitespace-only text is rejected with 400, whatever its length and
\* whatever the client's rate-limit state.
C8_BlankRejected ==
    (Called /\ gate.status # 401 /\ ~NonBlank(gate.text)) => gate.status = 400

C8_Witness ==
    /\ gate.status = 400
    /\ Len(gate.text) > MAX_TEXT_CHARS
    /\ gate.ip \in limited

\* C9: with a demo token configured, every request whose token (the header
\* value within its surrounding blanks; none is the empty one) differs from it
\* is rejected with 401; with none configured, nothing is rejected with 401.
C9_TokenGate ==
    /\ (demo_token # <<>> /\ Called /\ Strip(gate.token) # demo_token)
            => gate.status = 401
    /\ demo_token = <<>> => (gate.status # 401 /\ response.status # 401)

C9_Witness ==
    /\ Called
    /\ demo_token # <<>>
    /\ gate.token = <<>>
    /\ gate.status = 401
    /\ response.status = 401

\* C10: a request that the guardrails reject gets the guardrail's status as
\* its response and starts no collaborator call; and a handler calls its first
\* collaborator only in a step in which the guardrails have let its request
\* through.
C10_GuardrailsFirst ==
    [][/\ (GateCalled /\ gate'.status \in {401, 400, 413, 429})
            => /\ task' = task
               /\ response'.status = gate'.status
               /\ response'.calls = <<>>
               /\ response'.body = <<>>
       /\ (\E r \in Slots : task[r].pc = "idle" /\ task'[r].pc # "idle")
            => (GateCalled /\ gate'.status = 0)]_vars

C10_Witness ==
    /\ gate.status = 429
    /\ response.status = 429
    /\ response.endpoint = "ui"
    /\ response.calls = <<>>
    /\ \A r \in Slots : task[r].pc = "idle"

\* C11: no partial decision is returned: a request whose classifier,
\* retriever or compliance call failed ends without a result, and every
\* result returned follows the answers of all the collaborators its path
\* calls and holds content_id and a decision with exactly the fields label,
\* confidence, category and reasons.
C11_NoPartialResult ==
    /\ response.status = 500 => response.body = <<>>
    /\ response.body # <<>> =>
        /\ response.status = 200
        /\ response.cls # NoCls
        /\ response.cls.needs_review =>
                /\ response.calls = <<"classifier">> \o ReviewCalls
                /\ Len(response.compliance) = 1
        /\ DOMAIN response.body[1] = {"content_id", "decision"}
        /\ DOMAIN Decision = {"label", "confidence", "category", "reasons"}

C11_Witness ==
    /\ response.status = 500
    /\ response.calls = <<"classifier", "retriever", "compliance">>
    /\ response.cls.needs_review
    /\ response.retrieved # <<>>
    /\ response.body = <<>>

NoRepeat(calls) == \A i, j \in DOMAIN calls : calls[i] = calls[j] => i = j

\* a step in which the request of slot r ends, whichever way
Ends(r) == task[r].pc # "idle" /\ task'[r].pc = "idle"

\* C12: no retry and no cached failure: within one request each collaborator
\* is invoked at most once; the step in which a collaborator fails ends the
\* request with the calls made so far and touches no other request; and every
\* request admitted afterwards starts with a fresh call of the classifier.
C12_NoRetryNoCachedFailure ==
    [][/\ \A r \in Slots :
            /\ NoRepeat(task'[r].calls)
            /\ Ends(r) =>
                    /\ task'[r] = IdleTask
                    /\ \A s \in Slots \ {r} : task'[s] = task[s]
                    /\ pipelines' = pipelines
            /\ (Ends(r) /\ response' # response /\ response'.status = 500) =>
                    /\ response'.calls \in
                            {task[r].calls, Append(task[r].calls, "retriever")}
                    /\ response'.body = <<>>
       /\ NoRepeat(response'.calls)
       /\ (GateCalled /\ gate'.status = 0 /\ groq_api_key) =>
            \E r \in Slots :
                /\ task[r].pc = "idle"
                /\ task'[r].pc = "classifier"
                /\ task'[r].calls = <<"classifier">>
                /\ task'[r].cls = NoCls]_vars

C12_Witness ==
    /\ response.status = 500
    /\ response.content_id = "x1"
    /\ response.calls = <<"classifier", "retriever", "compliance">>
    /\ task["t1"].pc = "classifier"
    /\ task["t1"].calls = <<"classifier">>
    /\ task["t2"].pc = "compliance"

\* C13 as stated: whenever the classifier answered needs_review = true and a
\* result is returned, the result's reasons are not empty and the
\* classifier's explanation is among them.
C13_Original ==
    (response.body # <<>> /\ response.cls.needs_review) =>
        /\ Decision.reasons # <<>>
        /\ \E i \in DOMAIN Decision.reasons :
                Decision.reasons[i] = response.cls.explanation

\* C14: on both paths the category of the returned decision is the category
\* the classifier answered for that request, whatever the compliance
\* collaborator answered and whatever was retrieved.
C14_CategoryFromClassifier ==
    response.body # <<>> =>
        /\ response.cls # NoCls
        /\ Decision.category = response.cls.category

C14_Witness ==
    /\ response.body # <<>>
    /\ response.cls.needs_review
    /\ response.retrieved # <<>>
    /\ response.compliance # <<>>
    /\ Decision.category = "harassment"

\* the text that was sent with an identifier (the requests of NextConc)
TextOf(content_id) == IF content_id = "x1" THEN <<"a">> ELSE <<"b">>

\* C15: every returned result carries the identifier that was supplied with
\* its request, on both paths, and its decision is the one made for that
\* request's text, also while another request is in flight.
C15_OwnIdentifier ==
    response.body # <<>> =>
        /\ response.body[1].content_id = response.content_id
        /\ response.cls \in ClassifierOutputsFor(TextOf(response.content_id))
        /\ Decision.category = response.cls.category
        /\ Decision = IF response.cls.needs_review
                      THEN ReviewDecision(response.cls, response.compliance[1])
                      ELSE ShortCircuitDecision(response.cls)

C15_Witness ==
    /\ response.body # <<>>
    /\ response.content_id = "x1"
    /\ response.body[1].content_id = "x1"
    /\ response.cls.needs_review
    /\ task["t2"].pc = "compliance"
    /\ task["t2"].content_id = "x2"

\* q is the tail end of log
IsSuffix(q, log) ==
    /\ Len(q) <= Len(log)
    /\ q = SubSeq(log, Len(log) - Len(q) + 1, Len(log))

InFlight == {r \in Slots : task[r].pc # "idle"}

\* C16: the guardrail check of a request is one step, taken while the other
\* requests stand suspended at their collaborator calls; whatever the
\* interleaving, a client never has more than max admitted requests stamped
\* within any window, and its stored sequence is the tail end of what was
\* admitted for it: every timestamp once, in order, none missing but expired
\* ones.
C16_AtomicCheck ==
    /\ \A k \in DOMAIN admitted : \A t \in 0..MaxClock :
            InWindow(admitted[k], t) <= RATE_LIMIT_MAX_REQUESTS
    /\ DOMAIN admitted \subseteq DOMAIN rate_store
    /\ \A k \in DOMAIN admitted :
            /\ IsSuffix(rate_store[k], admitted[k])
            /\ \A i \in 1..(Len(admitted[k]) - Len(rate_store[k])) :
                    admitted[k][i] < clock - WindowTicks
    /\ \A k \in DOMAIN rate_store \ DOMAIN admitted : rate_store[k] = <<>>

C16_Witness ==
    /\ InFlight = Slots
    /\ gate.ip = "ipA"
    /\ rate_store["ipA"] = <<clock, clock>>
    /\ Len(admitted["ipA"]) > RATE_LIMIT_MAX_REQUESTS

\* C17: the step in which an admitted request ends at a collaborator call,
\* failed or cancelled (or with its result), leaves the rate store as it was:
\* the request's timestamp stays where the guardrail check put it, and no
\* client's sequence changes.
C17_LedgerKept ==
    [][\A r \in Slots :
            Ends(r) =>
                /\ rate_store' = rate_store
                /\ \A k \in DOMAIN admitted :
                        /\ k \in DOMAIN rate_store'
                        /\ IsSuffix(rate_store'[k], admitted[k])
                        /\ \A i \in 1..(Len(admitted[k]) - Len(rate_store'[k])) :
                                admitted[k][i] < clock - WindowTicks]_vars

C17_Witness ==
    /\ response.status = 500
    /\ response.content_id = "x1"
    /\ response.calls # <<>>
    /\ task["t1"].pc = "idle"
    /\ DOMAIN rate_store = {"ipA", "ipB"}
    /\ rate_store["ipA"] = <<clock>>
    /\ rate_store["ipB"] = <<clock>>

C19_AppendOnlyOnAdmission ==
    [][/\ (GateCalled /\ gate'.status = 429) =>
            /\ IsSuffix(rate_store'[gate'.ip], Queue(rate_store, gate'.ip))
            /\ admitted' = admitted
       /\ (GateCalled /\ gate'.status = 0) =>
            LET q == rate_store'[gate'.ip]
            IN  /\ q # <<>>
                /\ q[Len(q)] = clock
                /\ IsSuffix(SubSeq(q, 1, Len(q) - 1), Queue(rate_store, gate'.ip))
       /\ \A k \in DOMAIN rate_store' :
            ~IsSuffix(rate_store'[k], Queue(rate_store, k))
                => (GateCalled /\ gate'.status = 0 /\ gate'.ip = k)]_vars

C19_Witness ==
    /\ gate.status = 429
    /\ gate.retry
    /\ clock > 0
    /\ rate_store[gate.ip] = <<0, 0>>
    /\ admitted[gate.ip] = <<0, 0>>

\* C20: a call rejected by the token gate, the blank-text check or the
\* length check leaves the whole rate store as it was: nothing appended,
\* nothing evicted, no entry created for the client's key.
C20_RejectionKeepsLedger ==
    [][(GateCalled /\ gate'.status \in {401, 400, 413}) =>
            /\ rate_store' = rate_store
            /\ DOMAIN rate_store' = DOMAIN rate_store
            /\ admitted' = admitted
            /\ limited' = limited]_vars

C20_Witness ==
    /\ gate.status = 413
    /\ gate.ip \in DOMAIN rate_store
    /\ rate_store[gate.ip] # <<>>
    /\ Head(rate_store[gate.ip]) < clock - WindowTicks

\* C21 as stated: a client that was turned away with 429 and the hint "Try
\* again in N seconds", with no call made since, and that calls again exactly
\* N seconds after the rejection, is admitted.
C21_Original ==
    [][(/\ GateCalled
        /\ OtherwiseValid(gate')
        /\ gate.status = 429
        /\ gate'.ip = gate.ip
        /\ clock = gate.at + gate.wait * TicksPerSecond)
       => gate'.status = 0]_vars

\* the timestamps admitted so far for client key k
AdmittedFor(k) == IF k \in DOMAIN admitted THEN admitted[k] ELSE <<>>

\* C22: a guardrail check for one client key leaves the sequence stored for
\* every other key as it was and creates no entry for another key; and an
\* otherwise valid call is turned away exactly when the caller's own admitted
\* timestamps within the window are max or more, whatever the other clients
\* sent.
C22_PerClientIndependence ==
    [][GateCalled =>
        /\ \A k \in DOMAIN rate_store \ {gate'.ip} :
                /\ k \in DOMAIN rate_store'
                /\ rate_store'[k] = rate_store[k]
        /\ DOMAIN rate_store' \subseteq DOMAIN rate_store \cup {gate'.ip}
        /\ OtherwiseValid(gate') =>
                (gate'.status = 429 <=>
                    InWindow(AdmittedFor(gate'.ip), clock) >= RATE_LIMIT_MAX_REQUESTS)]_vars

C22_Witness ==
    /\ gate.status = 0
    /\ gate.ip = "unknown"
    /\ "ipA" \in limited
    /\ DOMAIN rate_store = {"ipA", "unknown"}
    /\ rate_store["ipA"] = <<clock, clock>>
    /\ rate_store["unknown"] = <<clock>>

====
